---------------------------- MODULE Spec2Model ----------------------------
(***************************************************************************)
(* HTTP message signatures (httpsig.go): the Signer and Verifier wrappers, *)
(* the signing transport's Sign step and the verifying middleware.         *)
(*                                                                         *)
(* A request is a record                                                   *)
(*   method, path, query : strings                                         *)
(*   header              : header name -> list of header instances, each   *)
(*                         instance a list of comma separated tokens       *)
(*                         (the instance <<>> is the empty string)         *)
(*   sigInput, signature : the parsed Signature-Input / Signature headers  *)
(*   sigMalformed        : Signature-Input does not parse                  *)
(*   body                : a stream (or the nil body)                      *)
(* Header names are kept lower case: net/http canonicalises the key of     *)
(* every Header.Set/Get, so names compare case-insensitively.              *)
(***************************************************************************)
EXTENDS Integers, Sequences, FiniteSets, TLC

VARIABLES
    opts,          \* the header list handed to WithHeaders (<<>>: option not given)
    s,             \* the signer: [headers, keys]
    v,             \* the verifier: [keys]
    now,           \* the wall clock read by the signer's and verifier's nowFunc
    r,             \* the request
    pc,            \* "config" | "new" | "signed" | "signfail" | "verified" | "served"
    signErr,       \* what Signer.Sign returned
    verifyRes,     \* what Verifier.Verify returned: [keyID, err]
    resp,          \* what the middleware wrote to the ResponseWriter
    handlerCalls,  \* how often the wrapped handler was invoked
    pre,           \* history: the request as handed to Sign
    sent,          \* history: the request as it left Sign (or the peer's signer)
    inReq,         \* history: the request as handed to Verify
    signedBy,      \* history: "none" | "signer" | "peer"
    tampers        \* history: number of in-flight modifications

vars == <<opts, s, v, now, r, pc, signErr, verifyRes, resp, handlerCalls,
          pre, sent, inReq, signedBy, tampers>>

----------------------------------------------------------------------------
(* Bounds *)

\* longest header list handed to WithHeaders
MaxHdrs == 3
\* longest request body, in bytes
MaxBody == 1
\* last clock value
MaxClock == 3
\* number of in-flight modifications between signing and verification
MaxTamper == 1
\* lifetime a peer's signer gives a signature that carries expires
MaxLife == 1

----------------------------------------------------------------------------
(* Values *)

NoErr == ""
NoTime == -1

Algorithms ==
    {"rsa-v1_5-sha256", "rsa-pss-sha512", "ecdsa-p256-sha256",
     "ecdsa-p384-sha384", "ed25519", "hmac-sha256"}

defaultHeaders == <<"content-type", "content-length">>

\* the components NewSigner forces into the covered list, in the order of its literal
specialtyComponents == <<"content-digest", "@query", "@path", "@method">>

\* a header token / a component value atom
Tok(str) == [t |-> str, n |-> 0]

Bytes == {0, 1}

RECURSIVE SeqsUpTo(_, _)
SeqsUpTo(S, n) ==
    IF n = 0 THEN {<<>>}
    ELSE LET shorter == SeqsUpTo(S, n - 1)
         IN shorter \cup {Append(q, x) : q \in {p \in shorter : Len(p) = n - 1}, x \in S}

sliceHas(haystack, needle) ==
    \E i \in 1..Len(haystack) : haystack[i] = needle

----------------------------------------------------------------------------
(* NewSigner *)

\* WithHeaders(hdr...): s.headers = hdr
WithHeaders(sg, hdr) == [sg EXCEPT !.headers = hdr]

\* one round of the loop over the specialty components
RECURSIVE prependMissing(_, _, _)
\* variant: a missing component is appended instead of prepended
prependMissing_Append(headers, comps, i) ==
    IF i > Len(comps) THEN headers
    ELSE prependMissing(
             IF ~sliceHas(headers, comps[i]) THEN Append(headers, comps[i]) ELSE headers,
             comps, i + 1)
prependMissing(headers, comps, i) ==
    IF i > Len(comps) THEN headers
    ELSE prependMissing(
             IF ~sliceHas(headers, comps[i]) THEN <<comps[i]>> \o headers ELSE headers,
             comps, i + 1)

\* NewSigner(opts...): the signer after the options, the default and the loop
\* variant: the loop over the specialty components is left out
NewSigner_NoSpecialty(hdr, keys) ==
    LET s0 == [headers |-> <<>>, keys |-> keys]
        s1 == IF hdr # <<>> THEN WithHeaders(s0, hdr) ELSE s0
    IN IF Len(s1.headers) = 0 THEN [s1 EXCEPT !.headers = defaultHeaders] ELSE s1
NewSigner(hdr, keys) ==
    LET s0 == [headers |-> <<>>, keys |-> keys]
        s1 == IF hdr # <<>> THEN WithHeaders(s0, hdr) ELSE s0
        s2 == IF Len(s1.headers) = 0 THEN [s1 EXCEPT !.headers = defaultHeaders] ELSE s1
    IN [s2 EXCEPT !.headers = prependMissing(s2.headers, specialtyComponents, 1)]

----------------------------------------------------------------------------
(* Keys.  A signing key is [alg, mat, ok, nonce]: its algorithm, its key      *)
(* material, whether its Sign succeeds, and the nonce it supplies.  A         *)
(* verifying key is [alg, mat].  A signature is [mat, data]: the material     *)
(* that made it and the bytes it was made over; it verifies under a key with  *)
(* the same material over the same bytes (an unforgeable primitive).          *)

SigningKey(alg, mat, ok) == [alg |-> alg, mat |-> mat, ok |-> ok, nonce |-> ""]
VerifyingKey(alg, mat) == [alg |-> alg, mat |-> mat]

\* SigningKey.Sign(data) ([]byte, error)
KeySign(key, data) ==
    IF key.ok THEN [err |-> NoErr, sig |-> [mat |-> key.mat, data |-> data]]
    ELSE [err |-> "signing failure", sig |-> [mat |-> "", data |-> data]]

\* VerifyingKey.Verify(data, signature) error
KeyVerify(key, data, sig) == sig.mat = key.mat /\ sig.data = data

\* keys.Store(keyID, key) on the insertion-ordered key store
Store(keys, keyID, key) ==
    IF \E i \in 1..Len(keys) : keys[i].id = keyID
    THEN [i \in 1..Len(keys) |->
             IF keys[i].id = keyID THEN [id |-> keyID, key |-> key] ELSE keys[i]]
    ELSE Append(keys, [id |-> keyID, key |-> key])

Known(keys, keyID) == \E i \in 1..Len(keys) : keys[i].id = keyID
Lookup(keys, keyID) == keys[CHOOSE i \in 1..Len(keys) : keys[i].id = keyID].key

\* WithSign<Alg>(keyID, pk) / WithHmacSha256(keyID, secret), signing side
WithSignKey(keys, keyID, alg, mat, ok) == Store(keys, keyID, SigningKey(alg, mat, ok))
\* WithVerify<Alg>(keyID, pk) / WithHmacSha256(keyID, secret), verifying side
WithVerifyKey(keys, keyID, alg, mat) == Store(keys, keyID, VerifyingKey(alg, mat))

\* NewVerifier(opts...)
NewVerifier(keys) == [keys |-> keys]

\* verifier.nowFunc: time.Now
\* variant: a clock one tick behind
nowFunc_Behind == now - 1
nowFunc == now

----------------------------------------------------------------------------
(* Body streams.  kind "nop": Close does nothing, a read after Close goes on  *)
(* (io.NopCloser, http.NoBody); "strict": a read after Close is an error      *)
(* (os.File, the server body); "broken": every read is an error; "nil":    *)
(* no body.  copy marks the buffer Sign/Verify put in the stream's place.     *)

Stream(kind, data) ==
    [kind |-> kind, data |-> data, pos |-> 0, closed |-> FALSE, copy |-> FALSE]
NilBody == Stream("nil", <<>>)

\* io.NopCloser(bytes.NewReader(b))
NopCloserReader(b) == [Stream("nop", b) EXCEPT !.copy = TRUE]

\* bytes.Buffer.ReadFrom(body): [err, b, body]
ReadFrom(body) ==
    IF body.kind = "broken" \/ (body.kind = "strict" /\ body.closed)
    THEN [err |-> "read error", b |-> <<>>, body |-> body]
    ELSE [err |-> NoErr,
          b |-> SubSeq(body.data, body.pos + 1, Len(body.data)),
          body |-> [body EXCEPT !.pos = Len(body.data)]]

Close(body) == [body EXCEPT !.closed = TRUE]

\* What the next consumer reads from the request's body
Consume(body) ==
    IF body.kind = "nil" THEN [err |-> NoErr, b |-> <<>>]
    ELSE [err |-> ReadFrom(body).err, b |-> ReadFrom(body).b]

\* The buffering both Sign and Verify do first: [err, b, req]
bufferBody(req) ==
    IF req.body.kind = "nil" THEN [err |-> NoErr, b |-> <<>>, req |-> req]
    ELSE LET rd == ReadFrom(req.body)
         IN IF rd.err # NoErr
            THEN [err |-> rd.err, b |-> <<>>, req |-> req]
            ELSE [err |-> NoErr, b |-> rd.b,
                  req |-> [req EXCEPT !.body =
                              IF Len(rd.b) # 0 THEN NopCloserReader(rd.b)
                              ELSE Close(rd.body)]]

----------------------------------------------------------------------------
(* Digest codec: SHA-512 as a collision-free map of the body bytes.           *)

RECURSIVE Sha512(_)
Sha512(b) ==
    IF b = <<>> THEN 1
    ELSE (Cardinality(Bytes) + 1) * Sha512(SubSeq(b, 1, Len(b) - 1)) + b[Len(b)] + 1

\* calcDigest(b): the header value sha-512=:<base64(hash)>:
calcDigest(b) == <<[t |-> "sha-512", n |-> Sha512(b)]>>

\* verifyDigest(b, dig): the tag is the supported one and the hash is b's
verifyDigest(b, dig) ==
    /\ Len(dig) = 1
    /\ dig[1].t = "sha-512"
    /\ dig[1].n = Sha512(b)

----------------------------------------------------------------------------
(* Headers *)

PlainNames == {"content-type", "content-length", "content-digest"}

\* http.Header.Get(name): the first instance, "" when there is none
Get(header, name) == IF header[name] = <<>> THEN <<>> ELSE header[name][1]

\* http.Header.Set(name, value): the one instance
Set(header, name, value) == [header EXCEPT ![name] = <<value>>]

RECURSIVE Join(_)
\* the instances of a header joined with ", "
Join(instances) ==
    IF instances = <<>> THEN <<>> ELSE Head(instances) \o Join(Tail(instances))

Upper(str) ==
    CASE str = "get" -> "GET"
      [] str = "post" -> "POST"
      [] OTHER -> str

\* messageFromRequest(r): the request view, everything but the body
messageFromRequest(req) ==
    [method |-> req.method, path |-> req.path, query |-> req.query,
     header |-> req.header, sigInput |-> req.sigInput,
     sigMalformed |-> req.sigMalformed, signature |-> req.signature]

\* Component resolver: [ok, val]
Resolve(msg, id) ==
    CASE id = "@method" -> [ok |-> TRUE, val |-> <<Tok(Upper(msg.method))>>]
      [] id = "@path" -> [ok |-> TRUE, val |-> <<Tok(msg.path)>>]
      [] id = "@query" -> [ok |-> TRUE, val |-> <<Tok("?"), Tok(msg.query)>>]
      [] OTHER ->
            IF id \in DOMAIN msg.header /\ msg.header[id] # <<>>
            THEN [ok |-> TRUE, val |-> Join(msg.header[id])]
            ELSE [ok |-> FALSE, val |-> <<>>]

\* the signature parameters of a descriptor (its label is not signed)
Params(d) ==
    [covered |-> d.covered, created |-> d.created, expires |-> d.expires,
     nonce |-> d.nonce, alg |-> d.alg, keyid |-> d.keyid]

\* Signature base: one line per covered component, then the parameters
SignatureBase(msg, d) ==
    [lines |-> [i \in 1..Len(d.covered) |->
                   [id |-> d.covered[i], val |-> Resolve(msg, d.covered[i]).val]],
     params |-> Params(d)]

----------------------------------------------------------------------------
(* Signer and verifier engines *)

\* the covered list of one call: the configured components the request has
coveredBy(sg, msg) ==
    LET has(id) == Resolve(msg, id).ok
    IN SelectSeq(sg.headers, has)

\* One signature per key of the store, in insertion order, or the first
\* failure and no header at all: [err, sigInput, signature]
signWith(keys, covered, msg, created, expires) ==
    LET desc(i) == [label |-> i, covered |-> covered, created |-> created,
                    expires |-> expires, nonce |-> keys[i].key.nonce,
                    alg |-> keys[i].key.alg, keyid |-> keys[i].id]
        res(i) == KeySign(keys[i].key, SignatureBase(msg, desc(i)))
    IN IF \E i \in 1..Len(keys) : res(i).err # NoErr
       THEN [err |-> "signing failure", sigInput |-> <<>>, signature |-> <<>>]
       ELSE [err |-> NoErr,
             sigInput |-> [i \in 1..Len(keys) |-> desc(i)],
             signature |-> [i \in 1..Len(keys) |-> [label |-> i, sig |-> res(i).sig]]]

\* signer.Sign(msg): created = now(), no expires
signerSign(sg, msg, t) == signWith(sg.keys, coveredBy(sg, msg), msg, t, NoTime)

\* index of the first descriptor whose keyid the key store knows, 0 if none
firstKnown(keys, descs) ==
    LET known == {i \in 1..Len(descs) : Known(keys, descs[i].keyid)}
    IN IF known = {} THEN 0 ELSE CHOOSE i \in known : \A j \in known : i <= j

\* verifier.Verify(msg): [keyID, err]
verifierVerify(vf, msg, t) ==
    LET fail(e) == [keyID |-> "", err |-> e]
        i == firstKnown(vf.keys, msg.sigInput)
        d == msg.sigInput[i]
        key == Lookup(vf.keys, d.keyid)
        sigs == {j \in 1..Len(msg.signature) : msg.signature[j].label = d.label}
        sig == msg.signature[CHOOSE j \in sigs : \A k \in sigs : j <= k].sig
    IN IF msg.sigMalformed THEN fail("malformed header")
       ELSE IF msg.sigInput = <<>> THEN fail("missing signature")
       ELSE IF i = 0 THEN fail("unknown key id")
       ELSE IF d.alg # key.alg THEN fail("algorithm mismatch")
       ELSE IF t < d.created THEN fail("not yet valid")
       ELSE IF d.expires # NoTime /\ t > d.expires THEN fail("expired")
       ELSE IF \E c \in 1..Len(d.covered) : ~Resolve(msg, d.covered[c]).ok
            THEN fail("missing component")
       ELSE IF sigs = {} THEN fail("malformed header")
       ELSE IF ~KeyVerify(key, SignatureBase(msg, d), sig) THEN fail("invalid signature")
       ELSE [keyID |-> d.keyid, err |-> NoErr]

----------------------------------------------------------------------------
(* Signer.Sign and Verifier.Verify *)

\* Signer.Sign(r): [err, req]
\* variant: no digest is set for an empty body (the TODO of line 89)
Sign_SkipEmptyDigest(sg, req, t) ==
    LET rd == bufferBody(req)
        r1 == IF rd.b = <<>> THEN rd.req
              ELSE [rd.req EXCEPT !.header = Set(@, "content-digest", calcDigest(rd.b))]
        res == signerSign(sg, messageFromRequest(r1), t)
    IN IF rd.err # NoErr THEN [err |-> rd.err, req |-> rd.req]
       ELSE IF res.err # NoErr THEN [err |-> res.err, req |-> r1]
       ELSE [err |-> NoErr,
             req |-> [r1 EXCEPT !.sigInput = res.sigInput,
                                !.signature = res.signature,
                                !.sigMalformed = FALSE]]
Sign(sg, req, t) ==
    LET rd == bufferBody(req)
        r1 == [rd.req EXCEPT !.header = Set(@, "content-digest", calcDigest(rd.b))]
        res == signerSign(sg, messageFromRequest(r1), t)
    IN IF rd.err # NoErr THEN [err |-> rd.err, req |-> rd.req]
       ELSE IF res.err # NoErr THEN [err |-> res.err, req |-> r1]
       ELSE [err |-> NoErr,
             req |-> [r1 EXCEPT !.sigInput = res.sigInput,
                                !.signature = res.signature,
                                !.sigMalformed = FALSE]]

\* Verifier.Verify(r): [keyID, err, req]
\* variant: the digest is required (the TODO of line 151)
Verify_RequireDigest(vf, req, t) ==
    LET in == verifierVerify(vf, messageFromRequest(req), t)
        rd == bufferBody(req)
        dig == Get(req.header, "content-digest")
    IN IF in.err # NoErr THEN [keyID |-> in.keyID, err |-> in.err, req |-> req]
       ELSE IF rd.err # NoErr THEN [keyID |-> in.keyID, err |-> rd.err, req |-> rd.req]
       ELSE IF ~verifyDigest(rd.b, dig)
            THEN [keyID |-> in.keyID, err |-> "digest mismatch", req |-> rd.req]
       ELSE [keyID |-> in.keyID, err |-> NoErr, req |-> rd.req]
\* variant: the error of verifier.Verify is dropped
Verify_IgnoreSignature(vf, req, t) ==
    LET in == verifierVerify(vf, messageFromRequest(req), t)
        rd == bufferBody(req)
        dig == Get(req.header, "content-digest")
    IN IF rd.err # NoErr THEN [keyID |-> in.keyID, err |-> rd.err, req |-> rd.req]
       ELSE IF dig # <<>> /\ ~verifyDigest(rd.b, dig)
            THEN [keyID |-> in.keyID, err |-> "digest mismatch", req |-> rd.req]
       ELSE [keyID |-> in.keyID, err |-> NoErr, req |-> rd.req]
Verify(vf, req, t) ==
    LET in == verifierVerify(vf, messageFromRequest(req), t)
        rd == bufferBody(req)
        dig == Get(req.header, "content-digest")
    IN IF in.err # NoErr THEN [keyID |-> in.keyID, err |-> in.err, req |-> req]
       ELSE IF rd.err # NoErr THEN [keyID |-> in.keyID, err |-> rd.err, req |-> rd.req]
       ELSE IF dig # <<>> /\ ~verifyDigest(rd.b, dig)
            THEN [keyID |-> in.keyID, err |-> "digest mismatch", req |-> rd.req]
       ELSE [keyID |-> in.keyID, err |-> NoErr, req |-> rd.req]

----------------------------------------------------------------------------
(* NewVerifyMiddleware *)

StatusBadRequest == 400

NoResponse == [status |-> 0, ctype |-> "", body |-> ""]

\* serveErr(rw)
serveErr ==
    [status |-> StatusBadRequest, ctype |-> "text/plain",
     body |-> "invalid required signature"]

\* the handler function of the middleware, given Verify's error:
\* what it writes and how often it calls h.ServeHTTP
\* variant: the return after serveErr is missing
serveHTTP_AlwaysForward(err) ==
    [resp |-> IF err # NoErr THEN serveErr ELSE NoResponse, calls |-> 1]
serveHTTP(err) ==
    IF err # NoErr THEN [resp |-> serveErr, calls |-> 0]
    ELSE [resp |-> NoResponse, calls |-> 1]

----------------------------------------------------------------------------
(* Inputs *)

HeaderNames ==
    {"content-digest", "@query", "@path", "@method", "content-type", "content-length"}

Methods == {"GET", "get", "POST"}
Paths == {"/a", "/b"}
Queries == {"", "x=1"}

Bodies == SeqsUpTo(Bytes, MaxBody)

\* values of a content-type header: absent, two instances, the same joined, one
ContentTypes ==
    {<<>>, <<<<Tok("a")>>, <<Tok("b")>>>>, <<<<Tok("a"), Tok("b")>>>>, <<<<Tok("a")>>>>}

\* values of a Content-Digest header: absent, the empty value, a digest under
\* an unsupported tag, two instances, the digest of the empty and of a
\* one-byte body
ContentDigests ==
    {<<>>, <<<<>>>>, <<<<[t |-> "sha-256", n |-> Sha512(<<>>)]>>>>,
     <<calcDigest(<<>>), calcDigest(<<0>>)>>,
     <<calcDigest(<<>>)>>, <<calcDigest(<<0>>)>>}

Request(method, query, ctype, digest, body) ==
    [method |-> method, path |-> "/a", query |-> query,
     header |-> [n \in PlainNames |->
                    CASE n = "content-type" -> ctype
                      [] n = "content-digest" -> digest
                      [] OTHER -> <<>>],
     sigInput |-> <<>>, sigMalformed |-> FALSE, signature |-> <<>>,
     body |-> body]

\* every request body a caller can hand over
AllStreams ==
    {NilBody, Stream("broken", <<>>)}
        \cup {Stream(k, b) : k \in {"nop", "strict"}, b \in Bodies}

\* signer keys and the verifier keys they meet
Setup(skeys, vkeys) == [skeys |-> skeys, vkeys |-> vkeys]

OneKey(alg) ==
    Setup(WithSignKey(<<>>, "k1", alg, "m1", TRUE), WithVerifyKey(<<>>, "k1", alg, "m1"))

TwoSigningKeys(ok2) ==
    WithSignKey(WithSignKey(<<>>, "k1", "hmac-sha256", "m1", TRUE),
                "k2", "ed25519", "m2", ok2)

Setups ==
    {OneKey(a) : a \in Algorithms}
        \cup {Setup(TwoSigningKeys(TRUE), vk) : vk \in
                {WithVerifyKey(WithVerifyKey(<<>>, "k1", "hmac-sha256", "m1"),
                               "k2", "ed25519", "m2"),
                 WithVerifyKey(<<>>, "k2", "ed25519", "m2"),
                 WithVerifyKey(<<>>, "k1", "ed25519", "m1"),
                 WithVerifyKey(<<>>, "k1", "hmac-sha256", "mX"),
                 <<>>}}
        \cup {Setup(TwoSigningKeys(FALSE), WithVerifyKey(<<>>, "k1", "hmac-sha256", "m1")),
              Setup(WithSignKey(<<>>, "k1", "ed25519", "m1", FALSE),
                    WithVerifyKey(<<>>, "k1", "ed25519", "m1"))}

\* the setups of the in-flight model: one algorithm stands for the six
FlightSetups == {su \in Setups : su.skeys[1].key.alg = "hmac-sha256"}

NoResult == [keyID |-> "", err |-> NoErr]

InitWith(hdrs, setups, requests) ==
    /\ opts \in hdrs
    /\ \E su \in setups :
          /\ s = NewSigner(opts, su.skeys)
          /\ v = NewVerifier(su.vkeys)
    /\ now = 1
    /\ r \in requests
    /\ pc = "new"
    /\ signErr = NoErr
    /\ verifyRes = NoResult
    /\ resp = NoResponse
    /\ handlerCalls = 0
    /\ pre = r
    /\ sent = r
    /\ inReq = r
    /\ signedBy = "none"
    /\ tampers = 0

----------------------------------------------------------------------------
(* Construction: NewSigner on every header list *)

InitNew ==
    /\ opts \in SeqsUpTo(HeaderNames, MaxHdrs)
    /\ s = [headers |-> <<>>, keys |-> <<>>]
    /\ v = NewVerifier(<<>>)
    /\ now = 1
    /\ r = Request("GET", "", <<>>, <<>>, NilBody)
    /\ pc = "config"
    /\ signErr = NoErr
    /\ verifyRes = NoResult
    /\ resp = NoResponse
    /\ handlerCalls = 0
    /\ pre = r
    /\ sent = r
    /\ inReq = r
    /\ signedBy = "none"
    /\ tampers = 0

Construct ==
    /\ pc = "config"
    /\ s' = NewSigner(opts, <<>>)
    /\ pc' = "new"
    /\ UNCHANGED <<opts, v, now, r, signErr, verifyRes, resp, handlerCalls,
                   pre, sent, inReq, signedBy, tampers>>

NextNew == Construct

SpecNew == InitNew /\ [][NextNew]_vars

----------------------------------------------------------------------------
(* Operations on a request *)

\* Signer.Sign(r), as NewSignTransport's round tripper calls it
SignRequest ==
    /\ pc = "new"
    /\ LET res == Sign(s, r, now)
       IN /\ r' = res.req
          /\ signErr' = res.err
          /\ pc' = IF res.err # NoErr THEN "signfail" ELSE "signed"
          /\ sent' = res.req
          /\ signedBy' = IF res.err # NoErr THEN "none" ELSE "signer"
    /\ pre' = r
    /\ UNCHANGED <<opts, s, v, now, verifyRes, resp, handlerCalls, inReq, tampers>>

\* Verifier.Verify(r), called directly
VerifyRequest ==
    /\ pc \in {"new", "signed"}
    /\ LET res == Verify(v, r, nowFunc)
       IN /\ r' = res.req
          /\ verifyRes' = [keyID |-> res.keyID, err |-> res.err]
    /\ inReq' = r
    /\ pc' = "verified"
    /\ UNCHANGED <<opts, s, v, now, signErr, resp, handlerCalls, pre, sent,
                   signedBy, tampers>>

\* the handler NewVerifyMiddleware returns, serving r
ServeRequest ==
    /\ pc \in {"new", "signed"}
    /\ LET res == Verify(v, r, nowFunc)
           out == serveHTTP(res.err)
       IN /\ r' = res.req
          /\ verifyRes' = [keyID |-> res.keyID, err |-> res.err]
          /\ resp' = out.resp
          /\ handlerCalls' = handlerCalls + out.calls
    /\ inReq' = r
    /\ pc' = "served"
    /\ UNCHANGED <<opts, s, v, now, signErr, pre, sent, signedBy, tampers>>

----------------------------------------------------------------------------
(* Signing and verifying in one process: every request, every algorithm *)

SignRequests ==
    {Request(m, q, ct, dg, b) :
        m \in {"GET", "post"}, q \in Queries,
        ct \in {<<>>, <<<<Tok("a")>>, <<Tok("b")>>>>},
        dg \in {<<>>, <<<<>>>>, <<calcDigest(<<0>>)>>},
        b \in AllStreams}

InitSign == InitWith({<<>>, <<"content-type">>}, Setups, SignRequests)

NextSign == SignRequest \/ VerifyRequest \/ ServeRequest

SpecSign == InitSign /\ [][NextSign]_vars

----------------------------------------------------------------------------
(* Requests in flight: a peer's signature, the clock, modifications *)

\* the bytes a body stream carries
BodyBytes(body) == body.data

\* covered lists a peer's signer may declare
PeerCovered == {<<"@method">>, <<"content-digest", "@method">>}

\* A peer holding the same keys signs the request with its own covered
\* list, clock and lifetime; it leaves body and digest as they are
PeerSign ==
    /\ pc = "new"
    /\ \E covered \in PeerCovered, created \in {now, now + 1}, life \in {0, MaxLife} :
          LET msg == messageFromRequest(r)
              res == signWith(s.keys, covered, msg, created,
                              IF life = 0 THEN NoTime ELSE created + life)
          IN /\ \A i \in 1..Len(covered) : Resolve(msg, covered[i]).ok
             /\ res.err = NoErr
             /\ r' = [r EXCEPT !.sigInput = res.sigInput,
                               !.signature = res.signature,
                               !.sigMalformed = FALSE]
    /\ pc' = "signed"
    /\ sent' = r'
    /\ signedBy' = "peer"
    /\ UNCHANGED <<opts, s, v, now, signErr, verifyRes, resp, handlerCalls,
                   pre, inReq, tampers>>

\* time passes between signing and verification (before any modification:
\* the two commute)
Tick ==
    /\ pc = "signed"
    /\ tampers = 0
    /\ now < MaxClock
    /\ now' = now + 1
    /\ UNCHANGED <<opts, s, v, r, pc, signErr, verifyRes, resp, handlerCalls,
                   pre, sent, inReq, signedBy, tampers>>

\* the frame of an in-flight modification
Tampered(req) ==
    /\ pc = "signed"
    /\ tampers < MaxTamper
    /\ req # r
    /\ r' = req
    /\ tampers' = tampers + 1
    /\ UNCHANGED <<opts, s, v, now, pc, signErr, verifyRes, resp, handlerCalls,
                   pre, sent, inReq, signedBy>>

TamperMethod == \E m \in Methods : Tampered([r EXCEPT !.method = m])

TamperPath == \E p \in Paths : Tampered([r EXCEPT !.path = p])

TamperQuery == \E q \in Queries : Tampered([r EXCEPT !.query = q])

TamperHeader ==
    \/ \E ct \in ContentTypes : Tampered([r EXCEPT !.header["content-type"] = ct])
    \/ \E cl \in {<<>>, <<<<Tok("1")>>>>} :
          Tampered([r EXCEPT !.header["content-length"] = cl])
    \/ \E dg \in ContentDigests : Tampered([r EXCEPT !.header["content-digest"] = dg])

\* another body arrives, on a fresh stream
TamperBody ==
    \E b \in Bodies :
        /\ b # BodyBytes(r.body)
        /\ Tampered([r EXCEPT !.body = Stream("nop", b)])

\* the signature bytes under one label are replaced
CorruptSignature ==
    \E i \in 1..Len(r.signature) :
        Tampered([r EXCEPT !.signature[i].sig.mat = "garbage"])

\* Signature-Input no longer parses
MangleSignatureInput == Tampered([r EXCEPT !.sigMalformed = TRUE])

\* both signature headers are removed
StripSignature == Tampered([r EXCEPT !.sigInput = <<>>, !.signature = <<>>])

FlightRequests ==
    {Request("GET", "", <<<<Tok("a")>>, <<Tok("b")>>>>, <<>>, b) :
        b \in {NilBody, Stream("nop", <<0>>), Stream("strict", <<>>)}}
        \cup {Request("GET", "", <<<<Tok("a")>>, <<Tok("b")>>>>, <<<<>>>>, NilBody)}

Init == InitWith({<<>>}, {su \in FlightSetups : \A i \in 1..Len(su.skeys) : su.skeys[i].key.ok},
                 FlightRequests)

Next ==
    \/ SignRequest
    \/ PeerSign
    \/ Tick
    \/ TamperMethod
    \/ TamperPath
    \/ TamperQuery
    \/ TamperHeader
    \/ TamperBody
    \/ CorruptSignature
    \/ MangleSignatureInput
    \/ StripSignature
    \/ VerifyRequest
    \/ ServeRequest

Spec == Init /\ [][Next]_vars

----------------------------------------------------------------------------
(* Properties *)

Verified == pc \in {"verified", "served"}

\* the header list NewSigner starts from
callerHeaders == IF Len(opts) = 0 THEN defaultHeaders ELSE opts

Count(seq, x) == Cardinality({i \in 1..Len(seq) : seq[i] = x})

IsSpecialty(id) == sliceHas(specialtyComponents, id)

\* C1: the middleware invokes the wrapped handler exactly once if and only if
\* Verify returned no error; on every failure the handler is not invoked and
\* the response is status 400, Content-Type text/plain, body
\* "invalid required signature", whatever failed.
C1_MiddlewareGate ==
    /\ pc # "served" => handlerCalls = 0 /\ resp = NoResponse
    /\ pc = "served" =>
          /\ handlerCalls \in {0, 1}
          /\ (handlerCalls = 1) <=> (verifyRes.err = NoErr)
          /\ verifyRes.err # NoErr =>
                resp = [status |-> 400, ctype |-> "text/plain",
                        body |-> "invalid required signature"]
          /\ verifyRes.err = NoErr => resp.status = 0

C1_Witness ==
    /\ pc = "served"
    /\ verifyRes.err = "digest mismatch"
    /\ handlerCalls = 0
    /\ resp.status = 400

\* C2: when a key's Sign fails, Signer.Sign returns the failure and the
\* request's headers, Content-Digest, Signature-Input and Signature included,
\* are what they were before the call.
C2_FailedSignLeavesHeaders ==
    (pc = "signfail" /\ signErr = "signing failure") =>
        /\ r.header = pre.header
        /\ r.sigInput = pre.sigInput
        /\ r.signature = pre.signature

C4_DigestAlwaysSet ==
    signedBy = "signer" =>
        r.header["content-digest"] =
            <<<<[t |-> "sha-512", n |-> Sha512(BodyBytes(pre.body))]>>>>

C4_Witness ==
    /\ pc = "signed"
    /\ signedBy = "signer"
    /\ pre.body = NilBody
    /\ pre.header["content-digest"] = <<calcDigest(<<0>>)>>
    /\ r.header["content-digest"] = <<calcDigest(<<>>)>>

\* the signature validation of the request handed to Verify
SignatureValid == verifierVerify(v, messageFromRequest(inReq), now).err = NoErr

\* C5 as stated: with a valid signature and a readable body, Verify fails if
\* and only if a Content-Digest header is present and its value does not match
\* the body; without a valid signature the digest is not looked at.
C5_DigestIffPresent ==
    Verified =>
        /\ (SignatureValid /\ Consume(inReq.body).err = NoErr) =>
              ((verifyRes.err # NoErr) <=>
                  /\ inReq.header["content-digest"] # <<>>
                  /\ ~verifyDigest(Consume(inReq.body).b,
                                   inReq.header["content-digest"][1]))
        /\ ~SignatureValid => (verifyRes.err \notin {NoErr, "digest mismatch"} /\ r = inReq)

\* C5 amended: with a valid signature and a readable body, Verify fails if
\* and only if the first Content-Digest value is not empty and does not match
\* the body; a request with no Content-Digest header, or an empty one, is
\* accepted whatever its body; without a valid signature the digest is not
\* looked at and the body is not read.
C5_DigestIffSet ==
    Verified =>
        /\ (SignatureValid /\ Consume(inReq.body).err = NoErr) =>
              ((verifyRes.err # NoErr) <=>
                  /\ inReq.header["content-digest"] # <<>>
                  /\ inReq.header["content-digest"][1] # <<>>
                  /\ ~verifyDigest(Consume(inReq.body).b,
                                   inReq.header["content-digest"][1]))
        /\ ~SignatureValid => (verifyRes.err \notin {NoErr, "digest mismatch"} /\ r = inReq)

C5_Witness ==
    /\ pc = "verified"
    /\ SignatureValid
    /\ inReq.header["content-digest"] = <<>>
    /\ BodyBytes(inReq.body) # <<>>
    /\ verifyRes.err = NoErr


\* the descriptors of the request handed to Verify whose keyid the verifier knows
KnownDescriptors ==
    {i \in 1..Len(inReq.sigInput) : Known(v.keys, inReq.sigInput[i].keyid)}

\* the request with descriptor i and the signature of its label alone
Only(req, i) ==
    LET mine(e) == e.label = req.sigInput[i].label
    IN [req EXCEPT !.sigInput = <<req.sigInput[i]>>,
                   !.signature = SelectSeq(req.signature, mine)]

\* C6: Verify examines one signature, that of the first descriptor in header
\* order whose keyid the verifier knows: its result is the result for that
\* descriptor alone, whatever the other descriptors and signatures are, the
\* keyID it returns on success is that descriptor's, and it fails when no
\* descriptor has a known keyid.
C6_FirstKnownOnly ==
    (Verified /\ ~inReq.sigMalformed) =>
        IF KnownDescriptors = {} THEN verifyRes.err # NoErr
        ELSE LET i == CHOOSE k \in KnownDescriptors : \A j \in KnownDescriptors : k <= j
                 alone == Verify(v, Only(inReq, i), now)
             IN /\ verifyRes = [keyID |-> alone.keyID, err |-> alone.err]
                /\ verifyRes.err = NoErr => verifyRes.keyID = inReq.sigInput[i].keyid

C6_Witness ==
    /\ pc = "verified"
    /\ Len(inReq.sigInput) = 2
    /\ KnownDescriptors = {1, 2}
    /\ inReq.signature[1].sig.mat # "garbage"
    /\ inReq.signature[2].sig.mat = "garbage"
    /\ verifyRes = [keyID |-> inReq.sigInput[1].keyid, err |-> NoErr]

\* keyID names a key of the signer whose verifying key the verifier holds
Matching(keyID) ==
    /\ Known(s.keys, keyID)
    /\ Known(v.keys, keyID)
    /\ Lookup(v.keys, keyID).alg = Lookup(s.keys, keyID).alg
    /\ Lookup(v.keys, keyID).mat = Lookup(s.keys, keyID).mat

\* the verifier holds a key of the signer, and every key id they share matches
MatchingKeys ==
    /\ \E i \in 1..Len(s.keys) : Matching(s.keys[i].id)
    /\ \A i \in 1..Len(s.keys) : Known(v.keys, s.keys[i].id) => Matching(s.keys[i].id)

\* C7: a request signed by Sign and handed unchanged to a Verify that holds
\* the matching key is accepted, and Verify returns that key's id.
C7_RoundTrip ==
    (Verified /\ signedBy = "signer" /\ inReq = sent /\ MatchingKeys) =>
        /\ verifyRes.err = NoErr
        /\ Matching(verifyRes.keyID)

\* the components the signer covered
SentCovered == {sent.sigInput[1].covered[i] : i \in 1..Len(sent.sigInput[1].covered)}

BodyChanged == BodyBytes(inReq.body) # BodyBytes(sent.body)

\* C8 as stated: after any change of a covered header, the method, the path,
\* the query or the body of a request signed by Sign, Verify returns an error.
C8_AnyChangeDetected ==
    (Verified /\ signedBy = "signer") =>
        ((\/ inReq.method # sent.method
          \/ inReq.path # sent.path
          \/ inReq.query # sent.query
          \/ \E h \in SentCovered \cap PlainNames : inReq.header[h] # sent.header[h]
          \/ BodyChanged)
            => verifyRes.err # NoErr)

\* C8 amended: after a change of the body, or a change of the method, the
\* path, the query or a covered header that changes the component's canonical
\* value (the method upper-cased, the instances of a header joined), Verify
\* returns an error.
C8_CanonicalChangeDetected ==
    (Verified /\ signedBy = "signer") =>
        ((\/ \E id \in SentCovered \cup {"@method", "@path", "@query"} :
                Resolve(messageFromRequest(inReq), id) # Resolve(messageFromRequest(sent), id)
          \/ BodyChanged)
            => verifyRes.err # NoErr)

C8_Witness ==
    /\ pc = "verified"
    /\ signedBy = "signer"
    /\ tampers = 1
    /\ inReq.method = "POST"
    /\ sent.method = "GET"
    /\ Verify(v, sent, now).err = NoErr
    /\ verifyRes.err = "invalid signature"

\* the descriptor Verify selects
Selected ==
    inReq.sigInput[CHOOSE k \in KnownDescriptors : \A j \in KnownDescriptors : k <= j]

\* C9: a signature that is valid at its creation time is accepted at every
\* clock value from created to expires, both included, fails as not yet valid
\* before created and as expired after expires; without expires it never
\* fails as expired.
C9_Freshness ==
    (Verified /\ ~inReq.sigMalformed /\ KnownDescriptors # {}) =>
        /\ Selected.expires = NoTime => verifyRes.err # "expired"
        /\ Verify(v, inReq, Selected.created).err = NoErr =>
              /\ now < Selected.created => verifyRes.err = "not yet valid"
              /\ (Selected.expires # NoTime /\ now > Selected.expires) =>
                    verifyRes.err = "expired"
              /\ (/\ Selected.created <= now
                  /\ (Selected.expires = NoTime \/ now <= Selected.expires)) =>
                    verifyRes.err = NoErr

C9_Witness ==
    /\ pc = "verified"
    /\ KnownDescriptors # {}
    /\ Selected.created < now
    /\ Selected.expires = now
    /\ verifyRes.err = NoErr

\* C10: after Sign or Verify has consumed a request's body, the next consumer
\* reads exactly the original body bytes from the request's body, for every
\* body, the empty one included.
C10_BodyPreserved ==
    /\ (signedBy = "signer" /\ pc = "signed" /\ pre.body.kind # "nil") =>
          Consume(r.body) = [err |-> NoErr, b |-> BodyBytes(pre.body)]
    /\ (Verified /\ verifyRes.err = NoErr /\ inReq.body.kind # "nil") =>
          Consume(r.body) = [err |-> NoErr, b |-> Consume(inReq.body).b]

=============================================================================
